---- MODULE Spec2Model ----
(***************************************************************************)
(* Model of src/main.py: transaction admission (validate_transaction),     *)
(* block assembly (create_coinbase_transaction, main) and the nonce search *)
(* (mining).                                                               *)
(*                                                                         *)
(* Text is a sequence of one-character strings.  Widths are scaled: a      *)
(* digest is HashSize bytes (32 in the source), a header field FieldSize   *)
(* bytes (4 in the source), and the digit alphabet HexChars has two        *)
(* symbols instead of sixteen; a byte is still a pair of digits.  SHA-256  *)
(* is not computed.  hash256, whose value decides the search, returns an   *)
(* arbitrary digest of the right length (each attempt is hashed once per   *)
(* run, so every run is the run of some function); the sha256 of a text,   *)
(* which only names things, is a fixed function of the text.               *)
(***************************************************************************)
EXTENDS Integers, Sequences, FiniteSets, TLC

\* ---- bounds of the model ----
HashSize == 1
FieldSize == 1
VoutBits == 3
WordBits == 4
MaxLen == 2

\* ---- program constants ----
MIN_OUTPUT_VALUE == 0
MAX_OUTPUT_VALUE == 21000000
MAX_VOUT == 2^VoutBits - 1
maxsize == 2^(WordBits - 1) - 1
MIN_TX_SIZE == 100
version == 2
REWARD == 50

VARIABLES
    pc,
    transaction, verdict,
    transactions, valid_transactions, coinbase_tx, transactions_for_block, output,
    target, time_stamp, merkleroot, header, nonce, attempt, digest, result,
    returned, failed,
    list_ab, list_ba, txids_ab, txids_ba, text_ab, text_ba

vars == << pc, transaction, verdict,
           transactions, valid_transactions, coinbase_tx, transactions_for_block, output,
           target, time_stamp, merkleroot, header, nonce, attempt, digest, result,
           returned, failed,
           list_ab, list_ba, txids_ab, txids_ba, text_ab, text_ba >>

validateVars == << transaction, verdict >>
mainVars == << transactions, valid_transactions, coinbase_tx, output >>
miningVars == << target, time_stamp, merkleroot, header, nonce, attempt, digest,
                 result, returned, failed >>
merkleVars == << list_ab, list_ba, txids_ab, txids_ba, text_ab, text_ba >>

\* ------------------------------------------------------------------------
\* FieldCodec: format, field, reversebytes, int
\* ------------------------------------------------------------------------
Alphabet ==
    << "0", "1", "2", "3", "4", "5", "6", "7", "8", "9", "a", "b", "c", "d", "e",
       "f", "g", "h", "i", "j", "k", "l", "m", "n", "o", "p", "q", "r", "s", "t",
       "u", "v", "w", "x", "y", "z", "_", "-" >>
CharCode(c) == CHOOSE i \in 1..Len(Alphabet) : Alphabet[i] = c

HexChars == << "0", "1" >>
Radix == Len(HexChars)
DigitSet == { HexChars[i] : i \in 1..Radix }
DigitValue(c) == CHOOSE v \in 0..(Radix - 1) : HexChars[v + 1] = c

RECURSIVE ToDigits(_)
ToDigits(n) ==
    IF n < Radix THEN << HexChars[n + 1] >>
    ELSE Append(ToDigits(n \div Radix), HexChars[(n % Radix) + 1])

Zeros(k) == [ i \in 1..k |-> "0" ]

\* format(data, "0{width}x"): zero padding to a MINIMUM width, sign first
format(data, width) ==
    IF data >= 0
    THEN LET d == ToDigits(data)
         IN  IF Len(d) >= width THEN d ELSE Zeros(width - Len(d)) \o d
    ELSE LET d == ToDigits(-data)
         IN  << "-" >> \o (IF Len(d) >= width - 1 THEN d
                           ELSE Zeros(width - 1 - Len(d)) \o d)

field(data, size) == format(data, size * 2)

RECURSIVE reversebytes(_)
reversebytes(data) ==
    IF Len(data) <= 2 THEN data
    ELSE reversebytes(SubSeq(data, 3, Len(data))) \o SubSeq(data, 1, 2)

RECURSIVE int(_)
int(s) ==
    IF s = << >> THEN 0
    ELSE int(SubSeq(s, 1, Len(s) - 1)) * Radix + DigitValue(s[Len(s)])

\* ------------------------------------------------------------------------
\* Hasher
\* ------------------------------------------------------------------------
\* the values hexdigest() can return: 2 * HashSize digits
Digests == [ 1..(2 * HashSize) -> DigitSet ]

\* bytes.fromhex(data) succeeds: whole bytes, digits only
CanHash(data) ==
    /\ Len(data) % 2 = 0
    /\ \A i \in 1..Len(data) : data[i] \in DigitSet

\* hashlib.sha256(text.encode()).hexdigest(): a digest that the text fixes
RECURSIVE Mix(_)
Mix(text) ==
    IF text = << >> THEN 1
    ELSE (Mix(SubSeq(text, 1, Len(text) - 1)) * 3 + CharCode(text[Len(text)]))
             % (Radix ^ (2 * HashSize))

sha256_hexdigest(text) == format(Mix(text), 2 * HashSize)

\* ------------------------------------------------------------------------
\* mining(target, transactions)
\* ------------------------------------------------------------------------
\* prevblock: a fixed digest-sized constant
prevblock == [ i \in 1..(2 * HashSize) |-> IF i = 2 * HashSize THEN "1" ELSE "0" ]

\* [transaction["txid"] for transaction in transactions]
Txids(txs) == [ i \in 1..Len(txs) |-> txs[i].txid ]

RECURSIVE LexLess(_, _)
LexLess(a, b) ==
    IF a = << >> THEN b # << >>
    ELSE IF b = << >> THEN FALSE
    ELSE IF Head(a) = Head(b) THEN LexLess(Tail(a), Tail(b))
    ELSE CharCode(Head(a)) < CharCode(Head(b))

\* "".join(sorted(txids))
RECURSIVE JoinSortedTxids(_)
JoinSortedTxids(txids) ==
    IF txids = << >> THEN << >>
    ELSE LET m == CHOOSE i \in 1..Len(txids) :
                      \A j \in 1..Len(txids) : ~ LexLess(txids[j], txids[i])
             rest == SubSeq(txids, 1, m - 1) \o SubSeq(txids, m + 1, Len(txids))
         IN  txids[m] \o JoinSortedTxids(rest)

\* "".join(txids), with the order of the list kept
RECURSIVE JoinTxids(_)
JoinTxids(txids) ==
    IF txids = << >> THEN << >>
    ELSE Head(txids) \o JoinTxids(Tail(txids))

\* the serialized header of lines 206-212, for a given Merkle root
Header(root) ==
    reversebytes(field(version, FieldSize))
        \o reversebytes(prevblock)
        \o reversebytes(root)
        \o reversebytes(field(time_stamp, FieldSize))

\* attempt = header + reversebytes(field(nonce, 4))
Attempt(hdr, n) == hdr \o reversebytes(field(n, FieldSize))

SolvesOrEqual(res, tgt) == int(res) <= int(tgt)

SolvesSwapped(res, tgt) == int(tgt) < int(res)

\* int(result, 16) < int(target, 16)
Solves(res, tgt) == int(res) < int(tgt)

\* what mining returns at line 227
Returned(hdr, att, res) == << hdr, res >>

\* lines 198-212: the fields, the Merkle root and the header
MiningPrepare ==
    /\ pc = "Preparing"
    /\ LET root == sha256_hexdigest(JoinTxids(Txids(transactions_for_block)))
       IN  /\ merkleroot' = root
           /\ header' = Header(root)
    /\ nonce' = 0
    /\ pc' = "Searching"
    /\ UNCHANGED << target, time_stamp, attempt, digest, result, returned, failed >>
    /\ UNCHANGED << validateVars, mainVars, transactions_for_block, merkleVars >>

\* one pass of the loop that ends at the return of line 227
MiningSolve ==
    /\ pc = "Searching"
    /\ LET att == Attempt(header, nonce)
       IN  /\ CanHash(att)
           /\ attempt' = att
           /\ \E d \in Digests :
                 LET res == reversebytes(d)
                 IN  /\ Solves(res, target)
                     /\ digest' = d
                     /\ result' = res
                     /\ returned' = Returned(header, att, res)
    /\ pc' = "Solved"
    /\ UNCHANGED << target, time_stamp, merkleroot, header, nonce, failed >>
    /\ UNCHANGED << validateVars, mainVars, transactions_for_block, merkleVars >>

\* one pass of the loop that ends at the increment of line 230
MiningRetry ==
    /\ pc = "Searching"
    /\ LET att == Attempt(header, nonce)
       IN  /\ CanHash(att)
           /\ attempt' = att
           /\ \E d \in Digests :
                 LET res == reversebytes(d)
                 IN  /\ ~ Solves(res, target)
                     /\ digest' = d
                     /\ result' = res
    /\ failed' = failed \cup { nonce }
    /\ nonce' = nonce + 1
    /\ UNCHANGED << pc, target, time_stamp, merkleroot, header, returned >>
    /\ UNCHANGED << validateVars, mainVars, transactions_for_block, merkleVars >>

\* one pass of the loop in which bytes.fromhex raises ValueError (line 180)
MiningCrash ==
    /\ pc = "Searching"
    /\ ~ CanHash(Attempt(header, nonce))
    /\ attempt' = Attempt(header, nonce)
    /\ pc' = "ValueError"
    /\ UNCHANGED << target, time_stamp, merkleroot, header, nonce, digest, result,
                    returned, failed >>
    /\ UNCHANGED << validateVars, mainVars, transactions_for_block, merkleVars >>

\* ------------------------------------------------------------------------
\* validate_transaction(transaction)
\* ------------------------------------------------------------------------
\* a Python value of an input's "txid": the string "0" and the integer 0 are
\* different values, and == between them is False
PyStr(s) == [ t |-> "str", v |-> s ]
PyInt(s) == [ t |-> "int", v |-> s ]
PyEq(a, b) == a.t = b.t /\ a.v = b.v

RECURSIVE SumValues(_)
SumValues(outs) ==
    IF outs = << >> THEN 0 ELSE Head(outs).value + SumValues(Tail(outs))

\* the value the function returns: "False" at a return False, "None" when
\* control falls off the end of the body (line 62)
validate_transaction(tx) ==
    IF Len(tx.vin) = 0 \/ Len(tx.vout) = 0 THEN "False"
    ELSE IF \E i \in 1..Len(tx.vout) :
               \/ tx.vout[i].value < MIN_OUTPUT_VALUE
               \/ tx.vout[i].value > MAX_OUTPUT_VALUE THEN "False"
    ELSE IF \/ SumValues(tx.vout) > MAX_OUTPUT_VALUE
            \/ SumValues(tx.vout) < MIN_OUTPUT_VALUE THEN "False"
    ELSE IF \E i \in 1..Len(tx.vin) :
               PyEq(tx.vin[i].txid, PyStr("0")) /\ tx.vin[i].vout = -1 THEN "False"
    ELSE IF tx.locktime > maxsize \/ tx.locktime < 0 THEN "False"
    ELSE IF tx.json_len < MIN_TX_SIZE THEN "False"
    ELSE "None"

\* the truth value Python gives a returned value in `if validate_transaction(tx)`
Truthy(v) == v = "True"

Keep(tx) == Truthy(validate_transaction(tx))

\* ------------------------------------------------------------------------
\* read_transactions_from_mempool, create_coinbase_transaction
\* ------------------------------------------------------------------------
\* data["txid"]: a digest-sized identifier determined by the content of the
\* record (stands for sha256(json.dumps(data)).hexdigest())
mempool_txid(vin, vout, locktime, json_len) ==
    format((json_len + locktime + SumValues(vout) + Len(vin)) % (Radix ^ (2 * HashSize)),
           2 * HashSize)

\* a record as read from the mempool; json_len is len(json.dumps(record))
Tx(vin, vout, locktime, json_len) ==
    [ txid |-> mempool_txid(vin, vout, locktime, json_len),
      vin |-> vin, vout |-> vout, locktime |-> locktime, json_len |-> json_len ]

coinbase_txid ==
    << "c", "o", "i", "n", "b", "a", "s", "e", "_", "t", "x", "i", "d", "_",
       "p", "l", "a", "c", "e", "h", "o", "l", "d", "e", "r" >>

coinbase_with_validator_index ==
    [ version |-> 2,
      locktime |-> 0,
      txid |-> coinbase_txid,
      vin |-> << [ txid |-> PyInt("0"),
                   vout |-> -1,
                   prevout |-> [ scriptpubkey |-> "coinbase_scriptpubkey",
                                 value |-> REWARD ] ] >>,
      vout |-> << [ scriptpubkey |-> "coinbase_scriptpubkey", value |-> REWARD ] >> ]

create_coinbase_transaction ==
    [ version |-> 2,
      locktime |-> 0,
      txid |-> coinbase_txid,
      vin |-> << [ txid |-> PyInt("0"),
                   vout |-> MAX_VOUT,
                   prevout |-> [ scriptpubkey |-> "coinbase_scriptpubkey",
                                 value |-> REWARD ] ] >>,
      vout |-> << [ scriptpubkey |-> "coinbase_scriptpubkey", value |-> REWARD ] >> ]

\* json.dumps(transaction, sort_keys=True): the text of the record
serialize_transaction(tx) == << "json", tx >>

\* difficulty_target of main: a zero byte-half, the top digit, then zeros
difficulty_target ==
    [ i \in 1..(2 * HashSize) |-> IF i = 2 THEN HexChars[Radix] ELSE "0" ]

\* ------------------------------------------------------------------------
\* inputs
\* ------------------------------------------------------------------------
SeqsUpTo(S, n) == UNION { [ 1..k -> S ] : k \in 0..n }

Refs ==
    { [ txid |-> PyStr("0"), vout |-> -1 ],
      [ txid |-> PyStr("0"), vout |-> 0 ],
      [ txid |-> PyInt("0"), vout |-> MAX_VOUT ],
      [ txid |-> PyStr("ab"), vout |-> 0 ] }

Values == { -1, 0, REWARD, 10500001, MAX_OUTPUT_VALUE, MAX_OUTPUT_VALUE + 1 }

Outs == { [ value |-> v ] : v \in Values }

Locktimes == { -1, 0, maxsize, maxsize + 1 }

JsonLens == { MIN_TX_SIZE - 1, MIN_TX_SIZE }

\* the records of the mempool directory in a run of main
MempoolTxs ==
    { Tx(<< [ txid |-> PyStr("ab"), vout |-> 0 ] >>, << [ value |-> REWARD ] >>,
         0, MIN_TX_SIZE),
      Tx(<< [ txid |-> PyStr("0"), vout |-> 0 ] >>,
         << [ value |-> 0 ], [ value |-> MAX_OUTPUT_VALUE ] >>, maxsize, MIN_TX_SIZE),
      Tx(<< [ txid |-> PyStr("ab"), vout |-> 0 ] >>,
         << [ value |-> 10500001 ], [ value |-> 10500001 ] >>, 0, MIN_TX_SIZE),
      Tx(<< [ txid |-> PyStr("0"), vout |-> -1 ] >>, << [ value |-> REWARD ] >>,
         0, MIN_TX_SIZE),
      Tx(<< [ txid |-> PyInt("0"), vout |-> MAX_VOUT ] >>, << [ value |-> REWARD ] >>,
         0, MIN_TX_SIZE) }

Pools == SeqsUpTo(MempoolTxs, MaxLen)

\* the transaction lists mining is called with
BlockLists ==
    { << create_coinbase_transaction >> \o p : p \in SeqsUpTo(MempoolTxs, 1) }

ZeroTarget == [ i \in 1..(2 * HashSize) |-> "0" ]
MaxTarget == [ i \in 1..(2 * HashSize) |-> HexChars[Radix] ]
Targets == { ZeroTarget, difficulty_target, MaxTarget }

\* int(time.time()): a clock reading that fits its field
TimeStamps == { 0, Radix ^ (2 * FieldSize) - 1 }

\* the identifiers a block can hold
Identifiers == Digests \cup { coinbase_txid }

NoTx == Tx(<< >>, << >>, 0, 0)

ValidateIdle == transaction = NoTx /\ verdict = "None"
MainIdle ==
    /\ transactions = << >>
    /\ valid_transactions = << >>
    /\ coinbase_tx = create_coinbase_transaction
    /\ output = << >>
MiningIdle ==
    /\ merkleroot = << >>
    /\ header = << >>
    /\ nonce = 0
    /\ attempt = << >>
    /\ digest = << >>
    /\ result = << >>
    /\ returned = << >>
    /\ failed = { }
MerkleIdle ==
    /\ list_ab = << >>
    /\ list_ba = << >>
    /\ txids_ab = << >>
    /\ txids_ba = << >>
    /\ text_ab = << >>
    /\ text_ba = << >>

\* ------------------------------------------------------------------------
\* main
\* ------------------------------------------------------------------------
Init ==
    /\ pc = "main"
    /\ transactions \in Pools
    /\ valid_transactions = << >>
    /\ coinbase_tx = create_coinbase_transaction
    /\ transactions_for_block = << >>
    /\ output = << >>
    /\ target = difficulty_target
    /\ time_stamp \in TimeStamps
    /\ MiningIdle
    /\ ValidateIdle
    /\ MerkleIdle

\* line 239: the list comprehension over the pool
FilterValid ==
    /\ pc = "main"
    /\ valid_transactions' = SelectSeq(transactions, Keep)
    /\ pc' = "filtered"
    /\ UNCHANGED << transactions, coinbase_tx, transactions_for_block, output >>
    /\ UNCHANGED << validateVars, miningVars, merkleVars >>

\* lines 244-258: the coinbase, the block's list, the call of mining
Assemble ==
    /\ pc = "filtered"
    /\ coinbase_tx' = create_coinbase_transaction
    /\ transactions_for_block' = << create_coinbase_transaction >> \o valid_transactions
    /\ target' = difficulty_target
    /\ pc' = "Preparing"
    /\ UNCHANGED << transactions, valid_transactions, output >>
    /\ UNCHANGED << time_stamp, merkleroot, header, nonce, attempt, digest, result,
                    returned, failed >>
    /\ UNCHANGED << validateVars, merkleVars >>

\* lines 261-265: header, coinbase serialization, one identifier per line
WriteOutput ==
    /\ pc = "Solved"
    /\ output' = << returned[1], serialize_transaction(coinbase_tx) >>
                     \o Txids(valid_transactions)
    /\ pc' = "Done"
    /\ UNCHANGED << transactions, valid_transactions, coinbase_tx,
                    transactions_for_block >>
    /\ UNCHANGED << validateVars, miningVars, merkleVars >>

Next ==
    \/ FilterValid
    \/ Assemble
    \/ MiningPrepare
    \/ MiningSolve
    \/ MiningRetry
    \/ MiningCrash
    \/ WriteOutput

Spec == Init /\ [][Next]_vars

\* ------------------------------------------------------------------------
\* mining called on its own
\* ------------------------------------------------------------------------
InitMining ==
    /\ pc = "Preparing"
    /\ target \in Targets
    /\ transactions_for_block \in BlockLists
    /\ time_stamp \in TimeStamps
    /\ MiningIdle
    /\ MainIdle
    /\ ValidateIdle
    /\ MerkleIdle

NextMining ==
    \/ MiningPrepare
    \/ MiningSolve
    \/ MiningRetry
    \/ MiningCrash

SpecMining == InitMining /\ [][NextMining]_vars

\* ------------------------------------------------------------------------
\* validate_transaction called on its own
\* ------------------------------------------------------------------------
InitValidate ==
    /\ pc = "validate"
    /\ \E vin \in SeqsUpTo(Refs, MaxLen), vout \in SeqsUpTo(Outs, MaxLen),
          lt \in Locktimes, n \in JsonLens :
          transaction = Tx(vin, vout, lt, n)
    /\ verdict = "None"
    /\ transactions_for_block = << >>
    /\ target = ZeroTarget
    /\ time_stamp = 0
    /\ MainIdle
    /\ MiningIdle
    /\ MerkleIdle

Validate ==
    /\ pc = "validate"
    /\ verdict' = validate_transaction(transaction)
    /\ pc' = "validated"
    /\ UNCHANGED << transaction, transactions_for_block >>
    /\ UNCHANGED << mainVars, miningVars, merkleVars >>

NextValidate == Validate

SpecValidate == InitValidate /\ [][NextValidate]_vars

\* ------------------------------------------------------------------------
\* the text of the Merkle root (lines 203-204) for two transactions, in both
\* orders
\* ------------------------------------------------------------------------
InitMerkle ==
    /\ pc = "merkle"
    /\ \E a \in Identifiers, b \in Identifiers :
          /\ list_ab = << [ txid |-> a ], [ txid |-> b ] >>
          /\ list_ba = << [ txid |-> b ], [ txid |-> a ] >>
    /\ txids_ab = << >>
    /\ txids_ba = << >>
    /\ text_ab = << >>
    /\ text_ba = << >>
    /\ transactions_for_block = << >>
    /\ target = ZeroTarget
    /\ time_stamp = 0
    /\ MainIdle
    /\ MiningIdle
    /\ ValidateIdle

\* line 203 for the list in the order a, b
MerkleTxidsAB ==
    /\ pc = "merkle"
    /\ txids_ab' = Txids(list_ab)
    /\ pc' = "merkle_text_ab"
    /\ UNCHANGED << list_ab, list_ba, txids_ba, text_ab, text_ba, transactions_for_block >>
    /\ UNCHANGED << validateVars, mainVars, miningVars >>

\* line 204 for the list in the order a, b
MerkleTextAB ==
    /\ pc = "merkle_text_ab"
    /\ text_ab' = JoinTxids(txids_ab)
    /\ pc' = "merkle_ba"
    /\ UNCHANGED << list_ab, list_ba, txids_ab, txids_ba, text_ba, transactions_for_block >>
    /\ UNCHANGED << validateVars, mainVars, miningVars >>

\* line 203 for the list in the order b, a
MerkleTxidsBA ==
    /\ pc = "merkle_ba"
    /\ txids_ba' = Txids(list_ba)
    /\ pc' = "merkle_text_ba"
    /\ UNCHANGED << list_ab, list_ba, txids_ab, text_ab, text_ba, transactions_for_block >>
    /\ UNCHANGED << validateVars, mainVars, miningVars >>

\* line 204 for the list in the order b, a
MerkleTextBA ==
    /\ pc = "merkle_text_ba"
    /\ text_ba' = JoinTxids(txids_ba)
    /\ pc' = "merkle_done"
    /\ UNCHANGED << list_ab, list_ba, txids_ab, txids_ba, text_ab, transactions_for_block >>
    /\ UNCHANGED << validateVars, mainVars, miningVars >>

NextMerkle ==
    \/ MerkleTxidsAB
    \/ MerkleTextAB
    \/ MerkleTxidsBA
    \/ MerkleTextBA

SpecMerkle == InitMerkle /\ [][NextMerkle]_vars

\* ========================================================================
\* Properties
\* ========================================================================
\* the admission rules as section 4.3 states them
SentinelRef(ref) == PyEq(ref.txid, PyStr("0")) /\ ref.vout = -1

AllRules(tx) ==
    /\ \A i \in 1..Len(tx.vout) : tx.vout[i].value >= 0 /\ tx.vout[i].value <= 21000000
    /\ SumValues(tx.vout) >= 0 /\ SumValues(tx.vout) <= 21000000
    /\ \A i \in 1..Len(tx.vin) : ~ SentinelRef(tx.vin[i])
    /\ tx.locktime >= 0 /\ tx.locktime <= 2^(WordBits - 1) - 1
    /\ tx.json_len >= 100

NonEmpty(tx) == Len(tx.vin) > 0 /\ Len(tx.vout) > 0

SatisfiesRules(tx) == NonEmpty(tx) /\ AllRules(tx)

\* the largest nonce a FieldSize-byte field holds
MaxNonce == Radix ^ (2 * FieldSize) - 1

\* C1: a transaction with at least one input and one output is accepted
\* (validate_transaction returns True) exactly when it satisfies every rule,
\* and gets False when it violates one.
C1_AcceptsIffAllRules ==
    (pc = "validated" /\ NonEmpty(transaction)) =>
        /\ (verdict = "True") <=> AllRules(transaction)
        /\ (~ AllRules(transaction)) => verdict = "False"

\* C2: the block handed to mining is the coinbase followed by exactly the
\* pool's transactions that satisfy the rules, in pool order, and the output
\* lists exactly their identifiers after the coinbase serialization.
C2_BlockIsCoinbasePlusValid ==
    (pc = "Done") =>
        /\ transactions_for_block =
               << coinbase_tx >> \o SelectSeq(transactions, SatisfiesRules)
        /\ SubSeq(output, 3, Len(output)) =
               Txids(SelectSeq(transactions, SatisfiesRules))
        /\ output[2] = serialize_transaction(coinbase_tx)

\* C3: when the search returns, the returned hash is the byte-reversed
\* hash256 of the prefix followed by the byte-reversed FieldSize-byte nonce,
\* its value is strictly below the target, and every smaller nonce from 0 up
\* was tried and did not solve.
C3_ReturnsFirstSolvingNonce ==
    (pc = "Solved") =>
        /\ attempt = header \o reversebytes(field(nonce, FieldSize))
        /\ Len(attempt) = Len(header) + 2 * FieldSize
        /\ result = reversebytes(digest)
        /\ returned[2] = result
        /\ int(result) < int(target)
        /\ failed = 0..(nonce - 1)

C3_Witness == pc = "Solved" /\ nonce > 0 /\ failed # { }

\* C4: the search never goes past the largest nonce its field holds (it
\* ends in Exhausted instead).
C4_NonceStaysInField == nonce <= MaxNonce

\* C5: on success the returned header is the winning attempt: the prefix
\* followed by the byte-reversed encoding of the solving nonce.
C5_ReturnsWinningAttempt ==
    (pc = "Solved") => returned[1] = attempt

C7_AttemptLengthFixed ==
    (attempt # << >>) => Len(attempt) = Len(header) + 2 * FieldSize

\* C8: for two distinct identifiers the text hashed for the order a, b
\* differs from the text hashed for the order b, a.
C8_MerkleTextOrderSensitive ==
    (pc = "merkle_done" /\ list_ab[1].txid # list_ab[2].txid) => text_ab # text_ba

C8_Witness ==
    /\ pc = "merkle_done"
    /\ list_ab[1].txid = coinbase_txid
    /\ list_ab[2].txid # coinbase_txid
    /\ text_ab # << >>
    /\ text_ba # << >>

\* C9: the list handed to mining starts with the coinbase transaction, which
\* has exactly one input (zero identifier, largest output index) and exactly
\* one output of value 50, whatever the pool.
C9_CoinbaseFirst ==
    (pc \in { "Preparing", "Searching", "Solved", "ValueError", "Done" }) =>
        /\ Len(transactions_for_block) >= 1
        /\ transactions_for_block[1] = coinbase_tx
        /\ Len(coinbase_tx.vin) = 1
        /\ coinbase_tx.vin[1].txid = PyInt("0")
        /\ coinbase_tx.vin[1].vout = 2^VoutBits - 1
        /\ Len(coinbase_tx.vout) = 1
        /\ coinbase_tx.vout[1].value = 50

C9_Witness == pc = "Done" /\ Len(transactions) > 0 /\ Len(output) >= 2

\* C10: a pending transaction with an input whose (txid, vout) is that of
\* the coinbase transaction's input is rejected (validate_transaction
\* returns False).
SameRef(a, b) == PyEq(a.txid, b.txid) /\ a.vout = b.vout

C10_CoinbaseInputRejected ==
    (/\ pc = "validated"
     /\ NonEmpty(transaction)
     /\ \E i \in 1..Len(transaction.vin) :
           SameRef(transaction.vin[i], create_coinbase_transaction.vin[1]))
        => verdict = "False"

====
